---------------------------- MODULE Spec2Model ----------------------------
(***************************************************************************)
(* Extractive answer-span decoding of notebook                             *)
(* 213-bert-question-answering.ipynb.                                      *)
(*                                                                         *)
(* The notebook decodes an answer span twice: once at top level after      *)
(* running the PyTorch model (Steps 3-6, notebook globals) and once        *)
(* inside answer_question, which runs the compiled OpenVINO model.         *)
(*                                                                         *)
(* Abstractions.  A (question, context) text is represented by the number  *)
(* of tokens the tokenizer produces for it; token ids are position-        *)
(* distinct so that different slices are different sequences.  Logits are  *)
(* small integers: argmax only reads their order.  Every tensor has batch  *)
(* size 1, so the flattened argmax index is the token position and a       *)
(* [1, L] tensor is modelled as a sequence of length L.  Python indices    *)
(* are 0-based; TLA+ sequences are 1-based.                                *)
(***************************************************************************)
EXTENDS Integers, Sequences, FiniteSets

\* max_length=512 in the notebook, scaled down.
max_length == 3

\* The padding id of the tokenizer (padding="max_length").
pad_token_id == 0

\* A local of answer_question that is not (yet) bound to an index.
NoIndex == -1

\* Logit values an arbitrary inference engine may return (order matters only).
LogitValues == {1, 2, 9}

\* Logit values of the notebook's own model, PyTorch or compiled.
ModelLogitValues == {1, 2}

\* Token counts of the texts handed to answer_question by an arbitrary caller;
\* max_length + 1 is a text that truncation shortens.
Texts == 1 .. (max_length + 1)

\* Token counts of the notebook's question/context (the PyTorch model takes at
\* most max_length positions).
NotebookTexts == 1 .. max_length

\* Token counts of the texts of a series of calls: a short and a full text.
QueryTexts == {1, max_length}

VARIABLES
    pc,                 \* position in the notebook / in answer_question
    question_context,   \* notebook globals question, context (token count)
    inputs,             \* notebook global: tokenizer output of Step 3
    start_scores,       \* notebook global: outputs.start_logits
    end_scores,         \* notebook global: outputs.end_logits
    start_index,        \* notebook global of Step 5
    end_index,          \* notebook global of Step 5
    answer_tokens,      \* notebook global of Step 6
    aq_inputs,          \* answer_question: inputs
    aq_result,          \* answer_question: result (start_logits, end_logits)
    aq_start_index,     \* answer_question: start_index once it is an index
    aq_end_index,       \* answer_question: end_index once it is an index
    aq_answer_tokens,   \* answer_question: answer_tokens
    aq_error,           \* exception raised out of answer_question
    prev                \* an earlier completed call, as its caller saw it

vars == <<pc, question_context, inputs, start_scores, end_scores, start_index,
          end_index, answer_tokens, aq_inputs, aq_result, aq_start_index,
          aq_end_index, aq_answer_tokens, aq_error, prev>>

notebook_vars == <<question_context, inputs, start_scores, end_scores,
                   start_index, end_index, answer_tokens>>

Min(a, b) == IF a < b THEN a ELSE b

\* Sequences over vals with a length in lens.
LogitSeqs(vals, lens) == UNION {[1 .. k -> vals] : k \in lens}

-----------------------------------------------------------------------------
(* The external tokenizer *)

TokenId(i) == 100 + i

\* tokenizer(question, context, add_special_tokens=True, return_tensors="pt"):
\* no padding, no truncation.
tokenizer(n) ==
    [input_ids      |-> [i \in 1 .. n |-> TokenId(i)],
     attention_mask |-> [i \in 1 .. n |-> 1]]

\* tokenizer(question, context, padding="max_length", max_length=512,
\* truncation=True, return_tensors="np"): always max_length positions.
tokenizer_max_length(n) ==
    LET k == Min(n, max_length) IN
    [input_ids      |-> [i \in 1 .. max_length |->
                            IF i <= k THEN TokenId(i) ELSE pad_token_id],
     attention_mask |-> [i \in 1 .. max_length |-> IF i <= k THEN 1 ELSE 0]]

-----------------------------------------------------------------------------
(* argmax and slicing *)

RECURSIVE argmax_scan(_, _, _)
\* Left-to-right scan; best is the 1-based position of the maximum so far and
\* is replaced only by a strictly greater element.
argmax_scan(a, i, best) ==
    IF i > Len(a) THEN best
    ELSE argmax_scan(a, i + 1, IF a[i] > a[best] THEN i ELSE best)

RECURSIVE argmax_scan_last(_, _, _)
argmax_scan_last(a, i, best) ==
    IF i > Len(a) THEN best
    ELSE argmax_scan_last(a, i + 1, IF a[i] >= a[best] THEN i ELSE best)

RECURSIVE argmin_scan(_, _, _)
argmin_scan(a, i, best) ==
    IF i > Len(a) THEN best
    ELSE argmin_scan(a, i + 1, IF a[i] < a[best] THEN i ELSE best)

\* numpy raises ValueError("attempt to get argmax of an empty sequence").
argmax_never_raises(a) == FALSE
argmax_raises(a) == Len(a) = 0

\* Mutants of ndarray_argmax.
ndarray_argmax_last(a) ==
    IF Len(a) = 0 THEN 0 ELSE argmax_scan_last(a, 2, 1) - 1
ndarray_argmin(a) ==
    IF Len(a) = 0 THEN 0 ELSE argmin_scan(a, 2, 1) - 1
ndarray_argmax_one_based(a) ==
    IF Len(a) = 0 THEN 0 ELSE argmax_scan(a, 2, 1)
\* the answer of the remembered call, when there is one
ndarray_argmax_cached(a) ==
    IF Len(a) = 0 THEN 0
    ELSE IF prev.called THEN prev.start_index
    ELSE argmax_scan(a, 2, 1) - 1
\* the end is searched only from the start found (a joint constraint)
ndarray_argmax_from_start(a) ==
    IF Len(a) = 0 THEN 0
    ELSE IF aq_start_index = NoIndex \/ aq_start_index + 1 > Len(a)
         THEN argmax_scan(a, 2, 1) - 1
    ELSE argmax_scan(a, aq_start_index + 2, aq_start_index + 1) - 1

\* ndarray.argmax(): 0-based index of the first occurrence of the maximum.
ndarray_argmax(a) ==
    IF Len(a) = 0 THEN 0 ELSE argmax_scan(a, 2, 1) - 1

RECURSIVE seq_max(_, _)
\* The maximum of the first n elements of t (n >= 1).
seq_max(t, n) ==
    IF n = 1 THEN t[1]
    ELSE LET m == seq_max(t, n - 1) IN IF t[n] > m THEN t[n] ELSE m

RECURSIVE first_index_of(_, _, _)
\* The least 1-based position >= i that holds v.
first_index_of(t, v, i) ==
    IF t[i] = v THEN i ELSE first_index_of(t, v, i + 1)

RECURSIVE last_index_of(_, _, _)
last_index_of(t, v, i) ==
    IF t[i] = v THEN i ELSE last_index_of(t, v, i - 1)

torch_argmax_last(t) == last_index_of(t, seq_max(t, Len(t)), Len(t)) - 1

\* torch.argmax(t): "If there are multiple maximal values then the indices of
\* the first maximal value are returned."
torch_argmax(t) == first_index_of(t, seq_max(t, Len(t)), 1) - 1

\* s[start:stop] including the element at stop.
getitem_slice_inclusive(s, start, stop) ==
    LET lo == Min(start, Len(s))
        hi == Min(stop + 1, Len(s))
    IN IF lo >= hi THEN << >> ELSE SubSeq(s, lo + 1, hi)

\* ndarray s[start:stop] for 0 <= start, stop: both ends are clamped to the
\* length, and the slice is empty when start >= stop.
ndarray_getitem_slice(s, start, stop) ==
    LET lo == Min(start, Len(s))
        hi == Min(stop, Len(s))
    IN IF lo >= hi THEN << >> ELSE SubSeq(s, lo + 1, hi)

\* Tensor t[start:stop] with 0-d tensor bounds (used through __index__).
tensor_getitem_slice(t, start, stop) ==
    LET lo == IF start > Len(t) THEN Len(t) ELSE start
        hi == IF stop > Len(t) THEN Len(t) ELSE stop
    IN [i \in 1 .. (IF hi > lo THEN hi - lo ELSE 0) |-> t[lo + i]]

-----------------------------------------------------------------------------
(* State after construction *)

NoCall ==
    [called |-> FALSE, attention_mask |-> << >>, start_logits |-> << >>,
     end_logits |-> << >>, start_index |-> NoIndex, end_index |-> NoIndex]

NoInputs == [input_ids |-> << >>, attention_mask |-> << >>]

NoResult == [start_logits |-> << >>, end_logits |-> << >>]

Fresh ==
    /\ question_context = 0
    /\ inputs = NoInputs
    /\ start_scores = << >>
    /\ end_scores = << >>
    /\ start_index = NoIndex
    /\ end_index = NoIndex
    /\ answer_tokens = << >>
    /\ aq_inputs = NoInputs
    /\ aq_result = NoResult
    /\ aq_start_index = NoIndex
    /\ aq_end_index = NoIndex
    /\ aq_answer_tokens = << >>
    /\ aq_error = "none"
    /\ prev = NoCall

\* answer_question is about to be called.
Init == Fresh /\ pc = "idle"

\* The notebook is about to run its first cell.
InitNotebook == Fresh /\ pc = "notebook"

-----------------------------------------------------------------------------
(* answer_question *)

\* Entry of a call: fresh locals, then the tokenizer call and dict(...).
Enter(n) ==
    /\ pc \in {"idle", "done", "raised"}
    /\ aq_inputs' = tokenizer_max_length(n)
    /\ aq_result' = NoResult
    /\ aq_start_index' = NoIndex
    /\ aq_end_index' = NoIndex
    /\ aq_answer_tokens' = << >>
    /\ aq_error' = "none"
    /\ pc' = "tokenized"

\* A call with any question and context.
AqTokenize ==
    /\ \E n \in Texts : Enter(n)
    /\ UNCHANGED <<notebook_vars, prev>>

\* A call of a series, with a short or a full text.
AqTokenizeQuery ==
    /\ \E n \in QueryTexts : Enter(n)
    /\ UNCHANGED <<notebook_vars, prev>>

\* infer_new_request of whatever engine the caller passed: two arrays of any
\* lengths, bound to the locals by the unpacking of result.values().
AqInfer ==
    /\ pc = "tokenized"
    /\ \E s \in LogitSeqs(LogitValues, 0 .. max_length),
          e \in LogitSeqs(LogitValues, 0 .. max_length) :
          aq_result' = [start_logits |-> s, end_logits |-> e]
    /\ pc' = "inferred"
    /\ UNCHANGED <<notebook_vars, aq_inputs, aq_start_index, aq_end_index,
                   aq_answer_tokens, aq_error, prev>>

\* infer_new_request of the notebook's compiled model: its input shape is
\* static, so both outputs have max_length positions.
AqInferCompiled ==
    /\ pc = "tokenized"
    /\ \E s \in LogitSeqs(ModelLogitValues, {max_length}),
          e \in LogitSeqs(ModelLogitValues, {max_length}) :
          aq_result' = [start_logits |-> s, end_logits |-> e]
    /\ pc' = "inferred"
    /\ UNCHANGED <<notebook_vars, aq_inputs, aq_start_index, aq_end_index,
                   aq_answer_tokens, aq_error, prev>>

\* start_index = start_index.argmax()
AqArgmaxStart ==
    /\ pc = "inferred"
    /\ IF argmax_raises(aq_result.start_logits)
       THEN /\ aq_error' = "ValueError"
            /\ pc' = "raised"
            /\ UNCHANGED aq_start_index
       ELSE /\ aq_start_index' = ndarray_argmax(aq_result.start_logits)
            /\ pc' = "start_found"
            /\ UNCHANGED aq_error
    /\ UNCHANGED <<notebook_vars, aq_inputs, aq_result, aq_end_index,
                   aq_answer_tokens, prev>>

\* end_index = end_index.argmax() + 1
AqArgmaxEnd ==
    /\ pc = "start_found"
    /\ IF argmax_raises(aq_result.end_logits)
       THEN /\ aq_error' = "ValueError"
            /\ pc' = "raised"
            /\ UNCHANGED aq_end_index
       ELSE /\ aq_end_index' = ndarray_argmax(aq_result.end_logits) + 1
            /\ pc' = "end_found"
            /\ UNCHANGED aq_error
    /\ UNCHANGED <<notebook_vars, aq_inputs, aq_result, aq_start_index,
                   aq_answer_tokens, prev>>

\* A slice that is taken by cutting the array down in place.
AqSliceInPlace ==
    /\ pc = "end_found"
    /\ aq_answer_tokens' =
           ndarray_getitem_slice(aq_inputs.input_ids, aq_start_index, aq_end_index)
    /\ aq_inputs' = [aq_inputs EXCEPT !.input_ids = aq_answer_tokens']
    /\ pc' = "done"
    /\ UNCHANGED <<notebook_vars, aq_result, aq_start_index,
                   aq_end_index, aq_error, prev>>

\* answer_tokens = inputs["input_ids"][0][start_index:end_index], then the
\* tokenizer's decode of them and the return.
AqSlice ==
    /\ pc = "end_found"
    /\ aq_answer_tokens' =
           ndarray_getitem_slice(aq_inputs.input_ids, aq_start_index, aq_end_index)
    /\ pc' = "done"
    /\ UNCHANGED <<notebook_vars, aq_inputs, aq_result, aq_start_index,
                   aq_end_index, aq_error, prev>>

\* The caller keeps what a completed call took and gave.
Remember ==
    /\ pc = "done"
    /\ prev' = [called         |-> TRUE,
                attention_mask |-> aq_inputs.attention_mask,
                start_logits   |-> aq_result.start_logits,
                end_logits     |-> aq_result.end_logits,
                start_index    |-> aq_start_index,
                end_index      |-> aq_end_index]
    /\ prev' # prev
    /\ UNCHANGED <<pc, notebook_vars, aq_inputs, aq_result, aq_start_index,
                   aq_end_index, aq_answer_tokens, aq_error>>

-----------------------------------------------------------------------------
(* The notebook's top-level cells *)

aq_vars == <<aq_inputs, aq_result, aq_start_index, aq_end_index,
             aq_answer_tokens, aq_error>>

\* Steps 2 and 3: question, context and inputs = tokenizer(question, context, ...)
Step3Tokenize ==
    /\ pc = "notebook"
    /\ \E n \in NotebookTexts :
          /\ question_context' = n
          /\ inputs' = tokenizer(n)
    /\ pc' = "step3"
    /\ UNCHANGED <<start_scores, end_scores, start_index, end_index,
                   answer_tokens, aq_vars, prev>>

\* Step 4: outputs = model(**inputs); one logit per input position.
Step4Model ==
    /\ pc = "step3"
    /\ \E s \in LogitSeqs(ModelLogitValues, {Len(inputs.input_ids)}),
          e \in LogitSeqs(ModelLogitValues, {Len(inputs.input_ids)}) :
          /\ start_scores' = s
          /\ end_scores' = e
    /\ pc' = "step4"
    /\ UNCHANGED <<question_context, inputs, start_index, end_index,
                   answer_tokens, aq_vars, prev>>

\* Step 5: the span
Step5FindSpan ==
    /\ pc = "step4"
    /\ start_index' = torch_argmax(start_scores)
    /\ end_index' = torch_argmax(end_scores) + 1
    /\ pc' = "step5"
    /\ UNCHANGED <<question_context, inputs, start_scores, end_scores,
                   answer_tokens, aq_vars, prev>>

\* Step 6: the answer tokens (and their decode)
Step6AnswerTokens ==
    /\ pc = "step5"
    /\ answer_tokens' =
           tensor_getitem_slice(inputs.input_ids, start_index, end_index)
    /\ pc' = "step6"
    /\ UNCHANGED <<question_context, inputs, start_scores, end_scores,
                   start_index, end_index, aq_vars, prev>>

\* The last cell: answer_question(compiled_model, tokenizer, question, context)
AqTokenizeNotebook ==
    /\ pc = "step6"
    /\ aq_inputs' = tokenizer_max_length(question_context)
    /\ pc' = "tokenized"
    /\ UNCHANGED <<notebook_vars, aq_result, aq_start_index, aq_end_index,
                   aq_answer_tokens, aq_error, prev>>

-----------------------------------------------------------------------------
(* Specifications *)

\* Calls of answer_question with any engine and any text.
Next ==
    \/ AqTokenize
    \/ AqInfer
    \/ AqArgmaxStart
    \/ AqArgmaxEnd
    \/ AqSlice

Spec == Init /\ [][Next]_vars

\* A series of calls with the notebook's compiled model.
NextQueries ==
    \/ AqTokenizeQuery
    \/ AqInferCompiled
    \/ AqArgmaxStart
    \/ AqArgmaxEnd
    \/ AqSlice
    \/ Remember

SpecQueries == Init /\ [][NextQueries]_vars

\* The notebook run top to bottom.
NextNotebook ==
    \/ Step3Tokenize
    \/ Step4Model
    \/ Step5FindSpan
    \/ Step6AnswerTokens
    \/ AqTokenizeNotebook
    \/ AqInferCompiled
    \/ AqArgmaxStart
    \/ AqArgmaxEnd
    \/ AqSlice

SpecNotebook == InitNotebook /\ [][NextNotebook]_vars

-----------------------------------------------------------------------------
(* Properties *)

\* i is the 0-based index of the first occurrence of the maximum of a.
IsFirstMax(a, i) ==
    /\ i \in 0 .. Len(a) - 1
    /\ \A j \in 1 .. Len(a) : a[j] <= a[i + 1]
    /\ \A j \in 1 .. i : a[j] < a[i + 1]

\* answer_question has computed start_index.
StartFound == pc \in {"start_found", "end_found", "done"}

\* answer_question has computed end_index.
EndFound == pc \in {"end_found", "done"}

\* C1: for every non-empty start_scores, start_index is the lowest index that
\* holds the maximum of the sequence (the first occurrence wins on ties).
C1_StartIsFirstArgmax ==
    (StartFound \/ (pc = "raised" /\ aq_start_index # NoIndex))
        => IsFirstMax(aq_result.start_logits, aq_start_index)

\* The scenario start_scores = [0.1, 0.9, 0.2] (as 1, 9, 2) gives 1, and a
\* tie between positions 0 and 2 gives 0.
C1_Witness ==
    \/ /\ StartFound
       /\ aq_result.start_logits = <<1, 9, 2>>
       /\ aq_start_index = 1
    \/ /\ StartFound
       /\ aq_result.start_logits = <<9, 1, 9>>
       /\ aq_start_index = 0

\* C2: for every non-empty end_scores of length L, end_index is the first
\* index of the maximum plus one, and 1 <= end_index <= L.
C2_EndIsFirstArgmaxPlusOne ==
    EndFound =>
        /\ IsFirstMax(aq_result.end_logits, aq_end_index - 1)
        /\ 1 <= aq_end_index
        /\ aq_end_index <= Len(aq_result.end_logits)

\* end_scores = [0.8, 0.1] (as 9, 1) gives 1; [0.05, 0.1, 0.8] (as 1, 2, 9)
\* gives 3 = L; a tie gives the first.
C2_Witness ==
    /\ EndFound
    /\ \/ aq_result.end_logits = <<9, 1>> /\ aq_end_index = 1
       \/ aq_result.end_logits = <<1, 2, 9>> /\ aq_end_index = 3
       \/ aq_result.end_logits = <<2, 9, 9>> /\ aq_end_index = 2

\* The engine's outputs are known to the call.
Inferred == pc \in {"inferred", "start_found", "end_found", "done", "raised"}

SomeEmpty ==
    Len(aq_result.start_logits) = 0 \/ Len(aq_result.end_logits) = 0

LengthsDiffer ==
    Len(aq_result.start_logits) # Len(aq_result.end_logits)

WellFormed ==
    /\ Len(aq_result.start_logits) = Len(aq_inputs.input_ids)
    /\ Len(aq_result.end_logits) = Len(aq_inputs.input_ids)
    /\ Len(aq_inputs.input_ids) > 0

\* C4 as claimed: every span produced from equal-length non-empty score
\* sequences satisfies 0 <= start_index < end_index <= sequence_length.
C4_AsClaimed ==
    (pc = "done" /\ WellFormed) =>
        /\ 0 <= aq_start_index
        /\ aq_start_index < aq_end_index
        /\ aq_end_index <= Len(aq_inputs.input_ids)

\* C4 (amended): every span produced from equal-length non-empty score
\* sequences satisfies 0 <= start_index <= sequence_length - 1 and
\* 1 <= end_index <= sequence_length; start_index < end_index need not hold.
C4_SpanWithinSequence ==
    (pc = "done" /\ WellFormed) =>
        /\ 0 <= aq_start_index
        /\ aq_start_index <= Len(aq_inputs.input_ids) - 1
        /\ 1 <= aq_end_index
        /\ aq_end_index <= Len(aq_inputs.input_ids)

\* A span whose start is the last position and whose end is before it.
C4_Witness ==
    /\ pc = "done"
    /\ WellFormed
    /\ aq_start_index = Len(aq_inputs.input_ids) - 1
    /\ aq_end_index < aq_start_index

\* C5: when argmax(end_scores) + 1 <= argmax(start_scores) the call raises
\* nothing, keeps that pair as it is and selects an empty token slice.
C5_InvertedSpanIsEmpty ==
    (pc = "done" /\ aq_end_index <= aq_start_index) =>
        /\ aq_error = "none"
        /\ IsFirstMax(aq_result.start_logits, aq_start_index)
        /\ IsFirstMax(aq_result.end_logits, aq_end_index - 1)
        /\ aq_answer_tokens = << >>

\* start_scores = [0.1, 0.9], end_scores = [0.9, 0.1] (as 1, 9 and 9, 1):
\* the span (1, 1), inside a token sequence that has a token at position 1.
C5_Witness ==
    /\ pc = "done"
    /\ aq_result.start_logits = <<1, 9>>
    /\ aq_result.end_logits = <<9, 1>>
    /\ aq_start_index = 1
    /\ aq_end_index = 1
    /\ Len(aq_inputs.input_ids) > 1
    /\ aq_answer_tokens = << >>

\* The call has returned and an earlier completed call is remembered.
TwoCalls == pc = "done" /\ prev.called

Permutations(n) ==
    {p \in [1 .. n -> 1 .. n] : \A i, j \in 1 .. n : p[i] = p[j] => i = j}

\* The permutations of the positions of a that leave every position holding
\* the maximum where it is.
LoserPermutations(a) ==
    {p \in Permutations(Len(a)) :
        \A i \in 1 .. Len(a) :
            (\A j \in 1 .. Len(a) : a[j] <= a[i]) => p[i] = i}

Permuted(a, p) == [i \in 1 .. Len(a) |-> a[p[i]]]

\* C7: permuting among themselves the elements of start_scores that are
\* strictly below the maximum does not change start_index.
C7_LosersDoNotMatter ==
    pc = "start_found" =>
        \A p \in LoserPermutations(aq_result.start_logits) :
            ndarray_argmax(Permuted(aq_result.start_logits, p)) = aq_start_index

\* Scores with two different losers, which a permutation swaps.
C7_Witness ==
    /\ pc = "start_found"
    /\ aq_start_index > 0
    /\ \E p \in LoserPermutations(aq_result.start_logits) :
          Permuted(aq_result.start_logits, p) # aq_result.start_logits

\* C8: start_index is decided by start_scores alone and end_index by
\* end_scores alone: calls with the same start_scores have the same
\* start_index whatever their end_scores and attention mask, and calls with
\* the same end_scores have the same end_index whatever their start_scores
\* and attention mask.
C8_BoundariesIndependent ==
    TwoCalls =>
        /\ prev.start_logits = aq_result.start_logits
               => prev.start_index = aq_start_index
        /\ prev.end_logits = aq_result.end_logits
               => prev.end_index = aq_end_index

\* Same end_scores, other start_scores and another attention mask: another
\* start_index, the same end_index, and the earlier span was inverted while
\* this one is not.
C8_Witness ==
    /\ TwoCalls
    /\ prev.end_logits = aq_result.end_logits
    /\ prev.start_logits # aq_result.start_logits
    /\ prev.attention_mask # aq_inputs.attention_mask
    /\ prev.start_index # aq_start_index
    /\ prev.end_index <= prev.start_index
    /\ aq_start_index < aq_end_index

\* C9: given the same start_scores, end_scores and token sequence, Steps 5/6
\* and answer_question give the same (start_index, end_index) and the same
\* answer token slice.
C9_SameDecode ==
    (/\ pc = "done"
     /\ start_scores = aq_result.start_logits
     /\ end_scores = aq_result.end_logits
     /\ inputs.input_ids = aq_inputs.input_ids) =>
        /\ start_index = aq_start_index
        /\ end_index = aq_end_index
        /\ answer_tokens = aq_answer_tokens

\* Both decodes ran on the same scores, which have a tie for the maximum, and
\* gave a span of more than one token.
C9_Witness ==
    /\ pc = "done"
    /\ start_scores = aq_result.start_logits
    /\ end_scores = aq_result.end_logits
    /\ inputs.input_ids = aq_inputs.input_ids
    /\ \E i, j \in 1 .. Len(start_scores) :
          i # j /\ start_scores[i] = 2 /\ start_scores[j] = 2
    /\ Len(aq_answer_tokens) > 1
    /\ answer_tokens = aq_answer_tokens

\* A step of the decode inside answer_question.
C10_DecodeStep ==
    pc \in {"inferred", "start_found", "end_found"} =>
        /\ aq_inputs' = aq_inputs
        /\ aq_result' = aq_result
        /\ pc' = "done" =>
              /\ ndarray_argmax(aq_result'.start_logits) = aq_start_index'
              /\ ndarray_argmax(aq_result'.end_logits) + 1 = aq_end_index'
              /\ ndarray_getitem_slice(aq_inputs'.input_ids, aq_start_index',
                                       aq_end_index') = aq_answer_tokens'

\* C10: computing the span and slicing the answer tokens leave the token
\* sequence, the attention mask and both score sequences as they were, so
\* decoding them again when the call returns gives the same span and slice.
C10_NoSideEffects == [][C10_DecodeStep]_vars

\* A call returned a slice of two tokens or more and the arrays are whole.
C10_Witness ==
    /\ pc = "done"
    /\ Len(aq_answer_tokens) > 1
    /\ Len(aq_inputs.input_ids) = max_length
    /\ Len(aq_inputs.attention_mask) = max_length
    /\ Len(aq_result.start_logits) > 0

=============================================================================
